---- MODULE Spec2Model ----
(***************************************************************************)
(* Model of the two scripts of misoto-cli:                                 *)
(*   misoto/binary_search.py   binary_search(arr, target)                  *)
(*   misoto/tower_of_hanoi.py  solve_tower(n, src, temp, dst)              *)
(* The two programs share nothing; each has its own specification and the  *)
(* variables of the other program stay at their initial values.            *)
(***************************************************************************)
EXTENDS Integers, Sequences, FiniteSets, TLC

VARIABLES arr, target, low, high, mid, pc, outcome, result, iters,
          args, stack, output, hpc

vars == <<arr, target, low, high, mid, pc, outcome, result, iters,
          args, stack, output, hpc>>

searchVars == <<arr, target, low, high, mid, pc, outcome, result, iters>>
hanoiVars == <<args, stack, output, hpc>>

(***************************************************************************)
(* binary_search:                                                          *)
(*   arr, target     the two arguments                                     *)
(*   low, high, mid  the locals (0 while not yet assigned)                 *)
(*   pc              "call" before line 2, "loop" at the test of line 5,   *)
(*                   "done" once the call has returned or raised           *)
(*   outcome         "pending", "index" (line 9), "None" (line 15) or      *)
(*                   "IndexError" (arr[mid] out of range on line 8)        *)
(*   result          the index returned on line 9                          *)
(*   iters           history: how often the loop body has been entered     *)
(* solve_tower:                                                            *)
(*   args            the arguments of the outermost call                   *)
(*   stack           the activations of solve_tower, outermost first, each *)
(*                   with the line it runs next (6: end of the if block)   *)
(*   output          the moves emitted so far; solve_tower has no print,   *)
(*                   no return value and no sink, so no action appends     *)
(*   hpc             "idle", "running", "done" for the outermost call      *)
(***************************************************************************)

(* ------------------------------ bounds --------------------------------- *)
MaxLen == 5
MaxVal == 3
MaxDisks == 4

Vals == 0..MaxVal
Pegs == {"A", "B", "C"}

(* ------------------------- binary_search.py ---------------------------- *)

\* all lists of length <= MaxLen over Vals
Lists == UNION {[1..k -> Vals] : k \in 0..MaxLen}

IsSorted(a) == \A i \in 1..Len(a) : \A j \in i..Len(a) : a[i] <= a[j]

SortedLists == {a \in Lists : IsSorted(a)}

\* arr[i] of a Python list: indices -len..-1 count from the end, anything
\* outside -len..len-1 raises IndexError
InRange(a, i) == i >= 0 - Len(a) /\ i <= Len(a) - 1

GetItem(a, i) == IF i >= 0 THEN a[i + 1] ELSE a[Len(a) + i + 1]

\* line 3: high = len(arr) - 1
InitHighOffByOne(a) == Len(a)

InitHigh(a) == Len(a) - 1

\* line 6: mid = (low + high) // 2
MidValueAtLow(l, h) == l

MidValue(l, h) == (l + h) \div 2

\* line 11: low = mid + 1
NewLowSkips(m) == m + 2

NewLow(m) == m + 1

\* line 13: high = mid - 1
NewHighSkips(m) == m - 2

NewHigh(m) == m - 1

\* the state of a call that has not started yet
IdleSearch ==
    /\ low = 0 /\ high = 0 /\ mid = 0
    /\ pc = "call" /\ outcome = "pending" /\ result = 0 /\ iters = 0

IdleHanoi ==
    /\ stack = <<>> /\ output = <<>> /\ hpc = "idle"
    /\ args = [n |-> 0, src |-> "A", temp |-> "B", dst |-> "C"]

\* lines 1-3: entry of binary_search
Start ==
    /\ pc = "call"
    /\ low' = 0
    /\ high' = InitHigh(arr)
    /\ pc' = "loop"
    /\ UNCHANGED <<arr, target, mid, outcome, result, iters>>
    /\ UNCHANGED hanoiVars

\* lines 5-13: one run of the loop body
LoopBodyWrites ==
    /\ pc = "loop"
    /\ low <= high
    /\ iters' = iters + 1
    /\ mid' = MidValue(low, high)
    /\ IF ~InRange(arr, mid')
         THEN /\ pc' = "done" /\ outcome' = "IndexError"
              /\ UNCHANGED <<low, high, result, arr>>
         ELSE IF GetItem(arr, mid') = target
         THEN /\ pc' = "done" /\ outcome' = "index" /\ result' = mid'
              /\ UNCHANGED <<low, high, arr>>
         ELSE IF GetItem(arr, mid') < target
         THEN /\ low' = NewLow(mid')
              /\ arr' = [arr EXCEPT ![mid' + 1] = target]
              /\ UNCHANGED <<high, pc, outcome, result>>
         ELSE /\ high' = NewHigh(mid')
              /\ UNCHANGED <<low, pc, outcome, result, arr>>
    /\ UNCHANGED target
    /\ UNCHANGED hanoiVars

LoopBody ==
    /\ pc = "loop"
    /\ low <= high
    /\ iters' = iters + 1
    /\ mid' = MidValue(low, high)
    /\ IF ~InRange(arr, mid')
         THEN /\ pc' = "done" /\ outcome' = "IndexError"
              /\ UNCHANGED <<low, high, result>>
         ELSE IF GetItem(arr, mid') = target
         THEN /\ pc' = "done" /\ outcome' = "index" /\ result' = mid'
              /\ UNCHANGED <<low, high>>
         ELSE IF GetItem(arr, mid') < target
         THEN /\ low' = NewLow(mid')
              /\ UNCHANGED <<high, pc, outcome, result>>
         ELSE /\ high' = NewHigh(mid')
              /\ UNCHANGED <<low, pc, outcome, result>>
    /\ UNCHANGED <<arr, target>>
    /\ UNCHANGED hanoiVars

\* lines 5, 15: the loop condition fails, return None
LoopExit ==
    /\ pc = "loop"
    /\ low > high
    /\ pc' = "done"
    /\ outcome' = "None"
    /\ UNCHANGED <<arr, target, low, high, mid, result, iters>>
    /\ UNCHANGED hanoiVars

NextSearch == Start \/ LoopBody \/ LoopExit

InitSorted ==
    /\ arr \in SortedLists
    /\ target \in Vals
    /\ IdleSearch
    /\ IdleHanoi

InitAny ==
    /\ arr \in Lists
    /\ target \in Vals
    /\ IdleSearch
    /\ IdleHanoi

SpecSorted == InitSorted /\ [][NextSearch]_vars

SpecAny == InitAny /\ [][NextSearch]_vars

\* a call of a single-threaded script keeps running until it returns
FairSpecSorted == SpecSorted /\ WF_vars(NextSearch)

FairSpecAny == SpecAny /\ WF_vars(NextSearch)

(* ------------------------- tower_of_hanoi.py --------------------------- *)

\* the six ways to hand the three labels to (src, temp, dst)
Calls == {c \in [n : 0..MaxDisks, src : Pegs, temp : Pegs, dst : Pegs] :
             c.src # c.temp /\ c.src # c.dst /\ c.temp # c.dst}

\* an activation of solve_tower at the line it is about to run
Frame(a, line) ==
    [n |-> a.n, src |-> a.src, temp |-> a.temp, dst |-> a.dst, line |-> line]

Top == stack[Len(stack)]

Pop == SubSeq(stack, 1, Len(stack) - 1)

SetLine(line) == [stack EXCEPT ![Len(stack)].line = line]

\* line 3: solve_tower(n-1, src, dst, temp)
FirstCallArgsRepeated(f) ==
    [n |-> f.n - 1, src |-> f.src, temp |-> f.dst, dst |-> f.dst]

FirstCallArgs(f) ==
    [n |-> f.n - 1, src |-> f.src, temp |-> f.dst, dst |-> f.temp]

\* line 4: solve_tower(1, src, temp, dst)
SecondCallArgs(f) ==
    [n |-> 1, src |-> f.src, temp |-> f.temp, dst |-> f.dst]

\* line 5: solve_tower(n-1, temp, dst, src)
ThirdCallArgs(f) ==
    [n |-> f.n - 1, src |-> f.temp, temp |-> f.dst, dst |-> f.src]

\* line 8 and the like: the outermost call
Invoke ==
    /\ hpc = "idle"
    /\ stack' = <<Frame(args, 2)>>
    /\ hpc' = "running"
    /\ UNCHANGED <<args, output>>
    /\ UNCHANGED searchVars

\* line 2: if n > 1; when the test fails the function ends and returns
Test ==
    /\ hpc = "running"
    /\ Top.line = 2
    /\ IF Top.n > 1
         THEN stack' = SetLine(3) /\ UNCHANGED hpc
         ELSE /\ stack' = Pop
              /\ hpc' = IF Len(stack) = 1 THEN "done" ELSE "running"
    /\ UNCHANGED <<args, output>>
    /\ UNCHANGED searchVars

\* line 3
FirstCall ==
    /\ hpc = "running"
    /\ Top.line = 3
    /\ stack' = Append(SetLine(4), Frame(FirstCallArgs(Top), 2))
    /\ UNCHANGED <<args, output, hpc>>
    /\ UNCHANGED searchVars

\* line 4
SecondCall ==
    /\ hpc = "running"
    /\ Top.line = 4
    /\ stack' = Append(SetLine(5), Frame(SecondCallArgs(Top), 2))
    /\ UNCHANGED <<args, output, hpc>>
    /\ UNCHANGED searchVars

\* line 5
ThirdCall ==
    /\ hpc = "running"
    /\ Top.line = 5
    /\ stack' = Append(SetLine(6), Frame(ThirdCallArgs(Top), 2))
    /\ UNCHANGED <<args, output, hpc>>
    /\ UNCHANGED searchVars

\* end of the if block: the function returns to its caller
Return ==
    /\ hpc = "running"
    /\ Top.line = 6
    /\ stack' = Pop
    /\ hpc' = IF Len(stack) = 1 THEN "done" ELSE "running"
    /\ UNCHANGED <<args, output>>
    /\ UNCHANGED searchVars

NextHanoi == Invoke \/ Test \/ FirstCall \/ SecondCall \/ ThirdCall \/ Return

InitHanoi ==
    /\ args \in Calls
    /\ stack = <<>>
    /\ output = <<>>
    /\ hpc = "idle"
    /\ arr = <<>> /\ target = 0
    /\ IdleSearch

SpecHanoi == InitHanoi /\ [][NextHanoi]_vars

(* --------------------- properties of binary_search --------------------- *)

Occurs(a, x) == \E i \in 1..Len(a) : a[i] = x

Occurrences(a, x) == {i \in 1..Len(a) : a[i] = x}

ValidIndex(a, x, i) == i >= 0 /\ i < Len(a) /\ a[i + 1] = x

RECURSIVE Log2Floor(_)
Log2Floor(k) == IF k <= 1 THEN 0 ELSE 1 + Log2Floor(k \div 2)

\* the most loop-body runs allowed for a list of length k
MaxIterations(k) == IF k = 0 THEN 0 ELSE Log2Floor(k) + 1

Width == high - low + 1

\* C1: on a sorted list that holds the target, the call returns an index i
\* with 0 <= i < len(arr) and arr[i] == target, never None.
C1_FoundWhenPresent ==
    (pc = "done" /\ Occurs(arr, target))
        => (outcome = "index" /\ ValidIndex(arr, target, result))

C1_Witness ==
    /\ pc = "done" /\ outcome = "index"
    /\ Len(arr) >= 3
    /\ Cardinality(Occurrences(arr, target)) >= 2
    /\ iters >= 2

\* C2: on a sorted list (the empty one included) that does not hold the
\* target, the call returns None and never an index.
C2_NoneWhenAbsent ==
    (pc = "done" /\ ~Occurs(arr, target)) => outcome = "None"

C2_Witness ==
    /\ pc = "done" /\ outcome = "None"
    /\ ~Occurs(arr, target)
    /\ Len(arr) >= 3
    /\ \E i \in 1..Len(arr) : arr[i] < target
    /\ \E i \in 1..Len(arr) : arr[i] > target

\* C7: at the top of every loop iteration on a sorted list of length n,
\* 0 <= low, high <= n-1 and low <= high+1; if the target occurs, one of its
\* occurrences lies in [low, high]; the mid computed next lies in [low, high]
\* and inside the list, and no read has been out of range.
C7_LoopInvariant ==
    /\ outcome # "IndexError"
    /\ pc = "loop" =>
         /\ 0 <= low
         /\ high <= Len(arr) - 1
         /\ low <= high + 1
         /\ Occurs(arr, target) =>
              \E i \in low..high : ValidIndex(arr, target, i)
         /\ low <= high =>
              /\ low <= MidValue(low, high)
              /\ MidValue(low, high) <= high
              /\ MidValue(low, high) >= 0
              /\ MidValue(low, high) <= Len(arr) - 1

C7_Witness ==
    /\ pc = "loop" /\ iters >= 2 /\ low <= high
    /\ Occurs(arr, target)
    /\ low > 0 /\ high < Len(arr) - 1

\* C8: the call terminates; an iteration that does not return shrinks the
\* width high - low + 1 to at most half (floor) of what it was; the loop body
\* runs 0 times for n = 0, once for n = 1 and at most floor(log2 n) + 1 times
\* for n >= 1.
C8_Terminates ==
    /\ [][(pc = "loop" /\ pc' = "loop")
            => (high' - low' + 1 < Width /\ high' - low' + 1 <= Width \div 2)]_vars
    /\ [](pc = "done" =>
            /\ iters <= MaxIterations(Len(arr))
            /\ Len(arr) = 1 => iters = 1)
    /\ <>(pc = "done")

C8_Witness ==
    /\ pc = "done" /\ Len(arr) >= 4
    /\ iters = MaxIterations(Len(arr))
    /\ outcome = "None"

\* C9: no step of a call changes the input list or the target.
C9_InputsUnchanged == [][arr' = arr /\ target' = target]_vars

C9_Witness ==
    /\ pc = "done" /\ iters >= 3 /\ low > 0 /\ high < Len(arr) - 1

\* C10: on any list, sorted or not, the call terminates, never reads out of
\* range, and an index it returns is a valid index of an occurrence of the
\* target.
C10_SoundOnAnyList ==
    /\ [](outcome # "IndexError")
    /\ [](outcome = "index" => ValidIndex(arr, target, result))
    /\ [](pc = "done" => outcome \in {"index", "None"})
    /\ <>(pc = "done")

C10_Witness ==
    /\ pc = "done" /\ outcome = "None"
    /\ ~IsSorted(arr)
    /\ Occurs(arr, target)

(* ---------------------- properties of solve_tower ---------------------- *)

RECURSIVE Pow2(_)
Pow2(k) == IF k = 0 THEN 1 ELSE 2 * Pow2(k - 1)

\* the move sequence of the recursive decomposition
RECURSIVE Decomposition(_, _, _, _)
Decomposition(k, s, t, d) ==
    IF k <= 0 THEN <<>>
    ELSE IF k = 1 THEN << <<s, d>> >>
    ELSE Decomposition(k - 1, s, d, t) \o << <<s, d>> >>
           \o Decomposition(k - 1, t, s, d)

\* the puzzle: each peg holds its disks top first, disk 1 is the smallest
StartPegs(k, s) == [p \in Pegs |-> IF p = s THEN [i \in 1..k |-> i] ELSE <<>>]

LegalMove(st, m) ==
    /\ m[1] # m[2]
    /\ st[m[1]] # <<>>
    /\ st[m[2]] = <<>> \/ Head(st[m[1]]) < Head(st[m[2]])

ApplyMove(st, m) ==
    [st EXCEPT ![m[1]] = Tail(@), ![m[2]] = <<Head(st[m[1]])>> \o @]

RECURSIVE ReplayLegal(_, _)
ReplayLegal(st, ms) ==
    IF ms = <<>> THEN TRUE
    ELSE LegalMove(st, Head(ms)) /\ ReplayLegal(ApplyMove(st, Head(ms)), Tail(ms))

RECURSIVE ReplayEnd(_, _)
ReplayEnd(st, ms) ==
    IF ms = <<>> THEN st ELSE ReplayEnd(ApplyMove(st, Head(ms)), Tail(ms))

\* C3: a finished call solve_tower(n, A, B, C) has emitted 2^n - 1 moves.
C3_MoveCount ==
    hpc = "done" => Len(output) = Pow2(args.n) - 1

\* C4: replaying the emitted moves from n disks on the source peg keeps the
\* puzzle rules, and when the call has finished all n disks are on the
\* destination peg.
C4_SolvesPuzzle ==
    /\ ReplayLegal(StartPegs(args.n, args.src), output)
    /\ hpc = "done" =>
         ReplayEnd(StartPegs(args.n, args.src), output)
            = StartPegs(args.n, args.dst)

\* C5: the moves are emitted in the order of the recursive decomposition:
\* [(source, destination)] for n = 1, and for n > 1 the sequence for
\* (n-1, source, destination, auxiliary), the move (source, destination),
\* the sequence for (n-1, auxiliary, source, destination).
C5_DecompositionOrder ==
    hpc = "done" =>
        output = Decomposition(args.n, args.src, args.temp, args.dst)

\* C6: every emitted move has fromPeg # toPeg with both pegs among the three
\* labels of the call, and every call of solve_tower, at any depth, is made
\* with three pairwise distinct labels that are a permutation of them.
C6_DistinctPegs ==
    /\ \A i \in 1..Len(output) :
         /\ output[i][1] # output[i][2]
         /\ {output[i][1], output[i][2]} \subseteq {args.src, args.temp, args.dst}
    /\ \A i \in 1..Len(stack) :
         /\ {stack[i].src, stack[i].temp, stack[i].dst}
               = {args.src, args.temp, args.dst}
         /\ stack[i].src # stack[i].temp
         /\ stack[i].src # stack[i].dst
         /\ stack[i].temp # stack[i].dst

C6_Witness ==
    /\ hpc = "running"
    /\ Len(stack) >= 3
    /\ Top.n = 1
    /\ Top.src # args.src

====
